---- MODULE Spec2Model ----
(***************************************************************************)
(* Model of analysis/mc_welfare.py: compute_welfare(df, bdp_amount), the   *)
(* loop that turns each row of a terminal-data frame into a welfare        *)
(* record (real consumption, two-class Gini, income floor, nominal         *)
(* consumption).                                                           *)
(*                                                                         *)
(* Numbers.  The program computes with Python ints (unbounded) and float64 *)
(* values.  Its quantities reach 10^14, beyond TLC's machine integers, so  *)
(* a number is modelled as an exact fraction s * n / d whose numerator and *)
(* denominator are naturals of any size, kept as little-endian sequences   *)
(* of limbs.  The four operations are exact; float64 rounding error is not *)
(* modelled.  A float64 division by zero gives inf or nan (the operands    *)
(* are numpy scalars, which warn and do not raise); those are kept as      *)
(* separate kinds of number.                                               *)
(***************************************************************************)
EXTENDS Integers, Sequences, FiniteSets

(* ---------------- naturals of any size: limb sequences ----------------- *)

Base == 10 ^ 4

RECURSIVE NatToBig(_)
NatToBig(n) == IF n = 0 THEN << >> ELSE <<n % Base>> \o NatToBig(n \div Base)

RECURSIVE BigStrip(_)
BigStrip(a) ==
    IF a = << >> THEN << >>
    ELSE IF a[Len(a)] = 0 THEN BigStrip(SubSeq(a, 1, Len(a) - 1))
    ELSE a

RECURSIVE BigAddC(_, _, _)
BigAddC(a, b, c) ==
    IF a = << >> /\ b = << >>
    THEN (IF c = 0 THEN << >> ELSE <<c>>)
    ELSE LET x == IF a = << >> THEN 0 ELSE Head(a)
             y == IF b = << >> THEN 0 ELSE Head(b)
             t == x + y + c
         IN  <<t % Base>> \o BigAddC(IF a = << >> THEN a ELSE Tail(a),
                                     IF b = << >> THEN b ELSE Tail(b),
                                     t \div Base)

BigAdd(a, b) == BigAddC(a, b, 0)

RECURSIVE BigCmpFrom(_, _, _)
BigCmpFrom(a, b, i) ==
    IF i = 0 THEN 0
    ELSE IF a[i] < b[i] THEN -1
    ELSE IF a[i] > b[i] THEN 1
    ELSE BigCmpFrom(a, b, i - 1)

\* -1, 0, 1 as a < b, a = b, a > b (both stripped of leading zero limbs)
BigCmp(a, b) ==
    IF Len(a) < Len(b) THEN -1
    ELSE IF Len(a) > Len(b) THEN 1
    ELSE BigCmpFrom(a, b, Len(a))

RECURSIVE BigSubB(_, _, _)
\* a - b - w for a >= b + w, limb by limb with borrow w
BigSubB(a, b, w) ==
    IF a = << >> THEN << >>
    ELSE LET y == IF b = << >> THEN 0 ELSE Head(b)
             t == Head(a) - y - w
         IN  <<IF t < 0 THEN t + Base ELSE t>> \o
             BigSubB(Tail(a), IF b = << >> THEN b ELSE Tail(b),
                     IF t < 0 THEN 1 ELSE 0)

BigSub(a, b) == BigStrip(BigSubB(a, b, 0))

RECURSIVE BigMulLimb(_, _, _)
\* a * k + c for one limb k
BigMulLimb(a, k, c) ==
    IF a = << >> THEN (IF c = 0 THEN << >> ELSE <<c>>)
    ELSE LET t == Head(a) * k + c
         IN  <<t % Base>> \o BigMulLimb(Tail(a), k, t \div Base)

RECURSIVE BigMul(_, _)
BigMul(a, b) ==
    IF a = << >> \/ b = << >> THEN << >>
    ELSE BigAdd(BigStrip(BigMulLimb(a, Head(b), 0)),
                LET r == BigMul(a, Tail(b))
                IN  IF r = << >> THEN << >> ELSE <<0>> \o r)

RECURSIVE BigDigit(_, _, _, _)
\* the largest k in lo..hi with d * k <= cur (d * lo <= cur is given)
BigDigit(cur, d, lo, hi) ==
    IF lo = hi THEN lo
    ELSE LET mid == (lo + hi + 1) \div 2
         IN  IF BigCmp(BigStrip(BigMulLimb(d, mid, 0)), cur) <= 0
             THEN BigDigit(cur, d, mid, hi)
             ELSE BigDigit(cur, d, lo, mid - 1)

RECURSIVE BigDivMod(_, _)
\* long division of a by d > 0: [q |-> a div d, r |-> a mod d]
BigDivMod(a, d) ==
    IF a = << >> THEN [q |-> << >>, r |-> << >>]
    ELSE LET up  == BigDivMod(Tail(a), d)
             cur == BigStrip(<<Head(a)>> \o up.r)
             k   == BigDigit(cur, d, 0, Base - 1)
         IN  [q |-> BigStrip(<<k>> \o up.q),
              r |-> BigSub(cur, BigStrip(BigMulLimb(d, k, 0)))]

(* ------------------------------ numbers -------------------------------- *)

\* a finite number s * n / d (s in {-1, 0, 1}, n = << >> iff s = 0, d > 0)
Fin(s, n, d) == [k |-> "fin", s |-> IF n = << >> THEN 0 ELSE s, n |-> n, d |-> d]
Inf(s)       == [k |-> "inf", s |-> s, n |-> << >>, d |-> << >>]
NaN          == [k |-> "nan", s |-> 0, n |-> << >>, d |-> << >>]

Sgn(i) == IF i < 0 THEN -1 ELSE IF i > 0 THEN 1 ELSE 0
Mag(i) == IF i < 0 THEN -i ELSE i

\* the integer i, and the decimal literal m / 10^e
Num(i)    == Fin(Sgn(i), NatToBig(Mag(i)), <<1>>)
Dec(m, e) == Fin(Sgn(m), NatToBig(Mag(m)), NatToBig(10 ^ e))

Neg(x) == [x EXCEPT !.s = -x.s]
Abs(x) == [x EXCEPT !.s = IF x.s = 0 THEN 0 ELSE 1]

\* x + y
Add(x, y) ==
    LET a == BigMul(x.n, y.d)
        b == BigMul(y.n, x.d)
        d == BigMul(x.d, y.d)
    IN  IF x.s = 0 THEN y
        ELSE IF y.s = 0 THEN x
        ELSE IF x.s = y.s THEN Fin(x.s, BigAdd(a, b), d)
        ELSE IF BigCmp(a, b) >= 0 THEN Fin(x.s, BigSub(a, b), d)
        ELSE Fin(y.s, BigSub(b, a), d)

Sub(x, y) == Add(x, Neg(y))

Mul(x, y) == Fin(x.s * y.s, BigMul(x.n, y.n), BigMul(x.d, y.d))

\* x / y for finite x; a zero divisor gives what float64 division gives
Div(x, y) ==
    IF y.s = 0 THEN (IF x.s = 0 THEN NaN ELSE Inf(x.s))
    ELSE Fin(x.s * y.s, BigMul(x.n, y.d), BigMul(x.d, y.n))

\* -1, 0, 1 as x < y, x = y, x > y (finite numbers)
Cmp(x, y) == Sub(x, y).s

Eq(x, y) == x.k = "fin" /\ y.k = "fin" /\ Cmp(x, y) = 0
Lt(x, y) == x.k = "fin" /\ y.k = "fin" /\ Cmp(x, y) < 0
Le(x, y) == x.k = "fin" /\ y.k = "fin" /\ Cmp(x, y) <= 0

\* int(x): the integer part of x, the fraction dropped (towards zero)
Trunc(x) == Fin(x.s, BigDivMod(x.n, x.d).q, <<1>>)

(* ------------------------- program constants --------------------------- *)

\* lines 22-23: module globals, read by compute_welfare on every pass
VARIABLES POP, MPC

globals == <<POP, MPC>>

InitGlobals == POP = 100000 /\ MPC = Dec(82, 2)

(* ------------------------------- state --------------------------------- *)

VARIABLES
    df, bdp_amount,        \* the arguments of the call
    pc,                    \* "loop" (line 28), "done" (returned), "raised"
    idx,                   \* rows the iterator has handed out
    results,               \* line 27
    unemp_rate, wage, price,
    n_employed, n_unemployed, y_emp, y_unemp,
    total_income, nominal_consumption, real_consumption, gini, income_floor,
    ret,                   \* the value returned
    history                \* the calls that have returned, oldest first:
                           \* what each was given and what it gave back

\* analysis/sweep_analysis.py, lines 20-42: the sweep loader
VARIABLES
    sweep_files,           \* results/sweep: level -> rows of its file, or Missing
    sweep_pc,              \* "off", "loop" (line 24), "done" (past line 42)
    sweep_i,               \* levels of bdp_levels the loop has taken
    sweep_results,         \* line 21: results
    sweep_out,             \* the lines printed, oldest first
    sweep_data             \* line 41: data

sweepvars == <<sweep_files, sweep_pc, sweep_i, sweep_results, sweep_out, sweep_data>>

\* analysis/diptest_analysis.py, lines 36-48: the GMM selection loop
VARIABLES
    gmm_fits,              \* the BIC each fit K = 1..5 will report
    gmm_pc,                \* "off", "loop" (line 40), "done" (past line 48)
    gmm_k,                 \* values of k the loop has taken
    bics,                  \* line 39
    gmm_out,               \* the lines printed at line 45, oldest first
    best_k                 \* line 47

gmmvars == <<gmm_fits, gmm_pc, gmm_k, bics, gmm_out, best_k>>

\* the scripts are separate programs: one that is not run stays as it is
SweepOff ==
    /\ sweep_files = << >> /\ sweep_pc = "off" /\ sweep_i = 0
    /\ sweep_results = << >> /\ sweep_out = << >> /\ sweep_data = << >>

GmmOff ==
    /\ gmm_fits = << >> /\ gmm_pc = "off" /\ gmm_k = 0
    /\ bics = << >> /\ gmm_out = << >> /\ best_k = 0

(* ------------------------------- inputs -------------------------------- *)

MaxRows == 2

Columns == {"Unemployment", "MarketWage", "PriceLevel"}

\* Cell values of the terminal files.  Rates: none, the 5 % of the reference
\* scenario, one whose employed head count has a fraction (94999.9), seven
\* in eight, all, and one above 1 (head count -0.5).  Wages and prices of
\* every sign.
Rates      == {Num(0), Dec(5, 2), Dec(50001, 6), Dec(875, 3), Num(1),
               Dec(1000005, 6)}
Wages      == {Num(0), Num(4000), Num(-4000)}
Prices     == {Dec(110, 2), Num(0), Num(-1)}
BdpAmounts == {Num(-400), Num(0), Num(2000), Num(3000)}

Rows == [Unemployment : Rates, MarketWage : Wages, PriceLevel : Prices]

SampleRows ==
    { [Unemployment |-> Dec(5, 2),        MarketWage |-> Num(4000),  PriceLevel |-> Dec(110, 2)],
      [Unemployment |-> Num(0),           MarketWage |-> Num(4000),  PriceLevel |-> Dec(110, 2)],
      [Unemployment |-> Num(1),           MarketWage |-> Num(0),     PriceLevel |-> Num(0)],
      [Unemployment |-> Dec(50001, 6),    MarketWage |-> Num(-4000), PriceLevel |-> Num(-1)] }

SeqsUpTo(S, n) == UNION { [1..m -> S] : m \in 0..n }

\* a row without column c
Without(row, c) == [f \in DOMAIN row \ {c} |-> row[f]]

\* The frames compute_welfare is called with: any one row, any sequence of
\* up to MaxRows sample rows, and sample frames that lack one column.
Frames ==
    { [columns |-> Columns, rows |-> <<r>>] : r \in Rows }
    \cup { [columns |-> Columns, rows |-> rs] : rs \in SeqsUpTo(SampleRows, MaxRows) }
    \cup { [columns |-> Columns \ {c},
            rows |-> [i \in DOMAIN rs |-> Without(rs[i], c)]] :
              c \in Columns, rs \in SeqsUpTo(SampleRows, MaxRows) }

(* ------------------------ the loop body, by line ------------------------ *)

NEmployed_Round(unemp) ==
    Trunc(Add(Mul(Sub(Num(1), unemp), Num(POP)), Dec(5, 1)))

\* line 33: n_employed = int((1 - unemp_rate) * POP)
NEmployed(unemp) == Trunc(Mul(Sub(Num(1), unemp), Num(POP)))

\* line 34: n_unemployed = POP - n_employed
NUnemployed(n_emp) == Sub(Num(POP), n_emp)

YEmp_NoTransfer(w, bdp) == w

\* line 36: y_emp = wage + bdp_amount
YEmp(w, bdp) == Add(w, bdp)

YUnemp_Zero(bdp) == Num(0)

\* line 37: y_unemp = bdp_amount
YUnemp(bdp) == bdp

TotalIncome_EmployedOnly(n_emp, ye, n_unemp, yu) == Mul(n_emp, ye)

TotalIncome_Accumulated(n_emp, ye, n_unemp, yu) ==
    Add(IF total_income.k = "fin" THEN total_income ELSE Num(0),
        Add(Mul(n_emp, ye), Mul(n_unemp, yu)))

\* line 40: total_income = n_employed * y_emp + n_unemployed * y_unemp
TotalIncome(n_emp, ye, n_unemp, yu) == Add(Mul(n_emp, ye), Mul(n_unemp, yu))

\* line 41: nominal_consumption = total_income * MPC / POP
NominalConsumption(total) == Div(Mul(total, MPC), Num(POP))

RealConsumption_Inflated(nominal, p) == Mul(nominal, p)

\* line 44: real_consumption = nominal_consumption / price
RealConsumption(nominal, p) == Div(nominal, p)

GiniBranch_NoIncomeGuard(ye, yu, total) == ~Eq(ye, yu)

GiniBranch_Ge(ye, yu, total) == Le(Num(0), total) /\ ~Eq(ye, yu)

\* line 47: the guard of the Gini division
GiniBranch(ye, yu, total) == Lt(Num(0), total) /\ ~Eq(ye, yu)

Gini_NoPop(n_emp, n_unemp, ye, yu, total) ==
    IF GiniBranch(ye, yu, total)
    THEN Div(Mul(Mul(n_emp, n_unemp), Abs(Sub(ye, yu))), total)
    ELSE Num(0)

Gini_NoAbs(n_emp, n_unemp, ye, yu, total) ==
    IF GiniBranch(ye, yu, total)
    THEN Div(Mul(Mul(n_emp, n_unemp), Sub(ye, yu)), Mul(Num(POP), total))
    ELSE Num(0)

Gini_EmployedOnly(n_emp, n_unemp, ye, yu, total) ==
    IF GiniBranch(ye, yu, total)
    THEN Div(Mul(n_emp, Abs(Sub(ye, yu))), Mul(Num(POP), total))
    ELSE Num(0)

\* lines 47-51: the two-class Gini, 0.0 on the else branch
Gini(n_emp, n_unemp, ye, yu, total) ==
    IF GiniBranch(ye, yu, total)
    THEN Div(Mul(Mul(n_emp, n_unemp), Abs(Sub(ye, yu))), Mul(Num(POP), total))
    ELSE Num(0)

\* line 54: income_floor = bdp_amount
IncomeFloor(bdp) == bdp

\* lines 56-61: the dict appended to results
WelfareRecord(real, g, floor, nominal) ==
    [real_consumption |-> real, gini |-> g, income_floor |-> floor,
     nominal_consumption |-> nominal]

ResultsAppend_Front(rs, rec) == <<rec>> \o rs

\* line 56: results.append(...)
ResultsAppend(rs, rec) == Append(rs, rec)

\* line 63: pd.DataFrame(results): one row per dict, in list order; the
\* columns are the dicts' keys, none for an empty list
DataFrame(rs) ==
    [columns |-> IF rs = << >> THEN {}
                 ELSE {"real_consumption", "gini", "income_floor", "nominal_consumption"},
     rows |-> rs]

(* ------------------------------- frame --------------------------------- *)

args   == <<df, bdp_amount>>
reads  == <<unemp_rate, wage, price>>
locals == <<n_employed, n_unemployed, y_emp, y_unemp, total_income,
            nominal_consumption, real_consumption, gini, income_floor>>
frame  == <<args, pc, idx, results, reads, locals, ret>>
welfarevars == <<globals, frame, history>>
vars   == <<welfarevars, sweepvars, gmmvars>>

\* a local name not yet bound
Unbound == [k |-> "unbound", s |-> 0, n |-> << >>, d |-> << >>]

NewResults_Kept(old) == old

\* line 27: results = []
NewResults(old) == << >>

\* lines 25-27: a call with frame d and transfer b begins; its locals are
\* unbound, its results list is new
Enter(d, b) ==
    /\ df' = d
    /\ bdp_amount' = b
    /\ pc' = "loop"
    /\ idx' = 0
    /\ results' = NewResults(results)
    /\ unemp_rate' = Unbound /\ wage' = Unbound /\ price' = Unbound
    /\ n_employed' = Unbound /\ n_unemployed' = Unbound
    /\ y_emp' = Unbound /\ y_unemp' = Unbound
    /\ total_income' = Unbound /\ nominal_consumption' = Unbound
    /\ real_consumption' = Unbound /\ gini' = Unbound /\ income_floor' = Unbound

\* the first call, with a frame of F and a transfer of B, at line 28
InitCall(F, B) ==
    /\ SweepOff /\ GmmOff
    /\ InitGlobals
    /\ history = << >>
    /\ df \in F
    /\ bdp_amount \in B
    /\ pc = "loop"
    /\ idx = 0
    /\ results = << >>
    /\ unemp_rate = Unbound /\ wage = Unbound /\ price = Unbound
    /\ n_employed = Unbound /\ n_unemployed = Unbound
    /\ y_emp = Unbound /\ y_unemp = Unbound
    /\ total_income = Unbound /\ nominal_consumption = Unbound
    /\ real_consumption = Unbound /\ gini = Unbound /\ income_floor = Unbound
    /\ ret = DataFrame(<< >>)

Init == InitCall(Frames, BdpAmounts)

\* mc_welfare.py not run
WelfareOff ==
    /\ InitGlobals
    /\ history = << >>
    /\ df = [columns |-> Columns, rows |-> << >>]
    /\ bdp_amount = Num(0)
    /\ pc = "off"
    /\ idx = 0
    /\ results = << >>
    /\ unemp_rate = Unbound /\ wage = Unbound /\ price = Unbound
    /\ n_employed = Unbound /\ n_unemployed = Unbound
    /\ y_emp = Unbound /\ y_unemp = Unbound
    /\ total_income = Unbound /\ nominal_consumption = Unbound
    /\ real_consumption = Unbound /\ gini = Unbound /\ income_floor = Unbound
    /\ ret = DataFrame(<< >>)

\* lines 28-61: one pass of the loop body over the next row
LoopBody ==
    /\ pc = "loop"
    /\ idx < Len(df.rows)
    /\ Columns \subseteq df.columns
    /\ LET row == df.rows[idx + 1] IN
        /\ unemp_rate' = row["Unemployment"]
        /\ wage' = row["MarketWage"]
        /\ price' = row["PriceLevel"]
    /\ n_employed' = NEmployed(unemp_rate')
    /\ n_unemployed' = NUnemployed(n_employed')
    /\ y_emp' = YEmp(wage', bdp_amount)
    /\ y_unemp' = YUnemp(bdp_amount)
    /\ total_income' = TotalIncome(n_employed', y_emp', n_unemployed', y_unemp')
    /\ nominal_consumption' = NominalConsumption(total_income')
    /\ real_consumption' = RealConsumption(nominal_consumption', price')
    /\ gini' = Gini(n_employed', n_unemployed', y_emp', y_unemp', total_income')
    /\ income_floor' = IncomeFloor(bdp_amount)
    /\ results' = ResultsAppend(results,
                                WelfareRecord(real_consumption', gini',
                                              income_floor', nominal_consumption'))
    /\ idx' = idx + 1
    /\ UNCHANGED <<args, pc, ret, globals, history, sweepvars, gmmvars>>

LoopKeyError_Skip ==
    /\ pc = "loop"
    /\ idx < Len(df.rows)
    /\ ~(Columns \subseteq df.columns)
    /\ idx' = idx + 1
    /\ UNCHANGED <<args, pc, results, reads, locals, ret, globals, history,
                   sweepvars, gmmvars>>

\* lines 29-31: row[c] for a column the frame lacks raises KeyError; the
\* names bound before the failing lookup keep the row's values
LoopKeyError ==
    /\ pc = "loop"
    /\ idx < Len(df.rows)
    /\ ~(Columns \subseteq df.columns)
    /\ LET row == df.rows[idx + 1] IN
        /\ unemp_rate' = IF "Unemployment" \in df.columns
                         THEN row["Unemployment"] ELSE unemp_rate
        /\ wage' = IF {"Unemployment", "MarketWage"} \subseteq df.columns
                   THEN row["MarketWage"] ELSE wage
    /\ pc' = "raised"
    /\ idx' = idx + 1
    /\ UNCHANGED <<args, results, price, locals, ret, globals, history,
                   sweepvars, gmmvars>>

\* line 63, reached when the iterator is exhausted
Return ==
    /\ pc = "loop"
    /\ idx = Len(df.rows)
    /\ ret' = DataFrame(results)
    /\ pc' = "done"
    /\ UNCHANGED <<args, idx, results, reads, locals, globals, history,
                   sweepvars, gmmvars>>

Next == LoopBody \/ LoopKeyError \/ Return

Spec == Init /\ [][Next]_vars

(* ------------------------- calls one after another ---------------------- *)

MaxCalls == 3

\* Frames and transfers of the calls made in sequence (lines 72-74 make
\* three): no row, one row, two rows in either order, one row without its
\* price column; transfers 0 and 2000.
CallRowA == [Unemployment |-> Dec(5, 2), MarketWage |-> Num(4000), PriceLevel |-> Dec(110, 2)]
CallRowB == [Unemployment |-> Dec(875, 3), MarketWage |-> Num(4000), PriceLevel |-> Num(0)]

CallFrames ==
    { [columns |-> Columns, rows |-> rs] :
        rs \in { << >>, <<CallRowA>>, <<CallRowA, CallRowB>>, <<CallRowB, CallRowA>> } }
    \cup { [columns |-> Columns \ {"PriceLevel"},
            rows |-> <<Without(CallRowA, "PriceLevel")>>] }

CallBdps == {Num(0), Num(2000)}

InitCalls == InitCall(CallFrames, CallBdps)

\* lines 72-74: the value returned is bound by the caller, which then calls
\* compute_welfare again
CallAgain ==
    /\ pc = "done"
    /\ Len(history) + 1 < MaxCalls
    /\ history' = Append(history, [df |-> df, bdp_amount |-> bdp_amount, ret |-> ret])
    /\ \E d \in CallFrames, b \in CallBdps : Enter(d, b)
    /\ UNCHANGED <<ret, globals, sweepvars, gmmvars>>

NextCalls == Next \/ CallAgain

SpecCalls == InitCalls /\ [][NextCalls]_vars

(* --------------------------- reading a state --------------------------- *)

\* the locals hold the values of row idx (a pass of the body has completed)
Bound == pc # "raised" /\ idx > 0

\* lines 29-61 as a function of one row and the transfer
Welfare(row, bdp) ==
    LET n_emp   == NEmployed(row["Unemployment"])
        n_unemp == NUnemployed(n_emp)
        ye      == YEmp(row["MarketWage"], bdp)
        yu      == YUnemp(bdp)
        total   == TotalIncome(n_emp, ye, n_unemp, yu)
        nominal == NominalConsumption(total)
    IN  WelfareRecord(RealConsumption(nominal, row["PriceLevel"]),
                      Gini(n_emp, n_unemp, ye, yu, total),
                      IncomeFloor(bdp), nominal)

Zero == Num(0)
One  == Num(1)

\* the row of the reference scenario and its transfer
IsScenarioRow(row) ==
    /\ Eq(row["Unemployment"], Dec(5, 2))
    /\ Eq(row["MarketWage"], Num(4000))
    /\ Eq(row["PriceLevel"], Dec(110, 2))

InScenario == Bound /\ IsScenarioRow(df.rows[idx]) /\ Eq(bdp_amount, Num(2000))

(* -------------------------------- claims -------------------------------- *)

\* C1: for every processed row with PriceLevel > 0, whatever the transfer,
\* the output record's real_consumption is finite and is its own
\* nominal_consumption divided by the row's price level, nothing else:
\* real_consumption * PriceLevel = nominal_consumption.
C1_RealIsNominalOverPrice ==
    \A i \in 1..Len(results) :
        Lt(Zero, df.rows[i]["PriceLevel"]) =>
            /\ results[i].real_consumption.k = "fin"
            /\ Eq(Mul(results[i].real_consumption, df.rows[i]["PriceLevel"]),
                  results[i].nominal_consumption)

\* C1 witness: the reference row (price 1.10) has been turned into a record
\* whose nominal consumption is 4756 and whose real consumption is not.
C1_Witness ==
    /\ InScenario
    /\ Eq(results[idx].nominal_consumption, Num(4756))
    /\ ~Eq(results[idx].real_consumption, results[idx].nominal_consumption)

\* C2: for every processed row with Unemployment in [0,1], MarketWage >= 0
\* and a transfer >= 0, the record's gini satisfies 0 <= gini < 1.
C2_Domain(row) ==
    /\ Le(Zero, row["Unemployment"]) /\ Le(row["Unemployment"], One)
    /\ Le(Zero, row["MarketWage"])
    /\ Le(Zero, bdp_amount)

C2_GiniInUnitInterval ==
    \A i \in 1..Len(results) :
        C2_Domain(df.rows[i]) =>
            Le(Zero, results[i].gini) /\ Lt(results[i].gini, One)

\* C2 witness: a row of the domain with more than 5 % unemployed has been
\* given a strictly positive gini.
C2_Witness ==
    /\ pc = "done" /\ Len(results) = 1
    /\ C2_Domain(df.rows[1])
    /\ Lt(Zero, results[1].gini)
    /\ Lt(Dec(5, 2), df.rows[1]["Unemployment"])

\* C3: after each pass, gini is n_employed * n_unemployed * |y_emp - y_unemp|
\* over POP * total_income when total_income > 0 and y_emp # y_unemp, and is
\* 0 otherwise; in the reference scenario it is 1 900 000 000 000 /
\* 58 000 000 000 000, which rounds to 0.032759.
C3_GiniFormula ==
    Bound =>
        /\ results[idx].gini = gini
        /\ IF Lt(Zero, total_income) /\ ~Eq(y_emp, y_unemp)
           THEN Eq(Mul(gini, Mul(Num(POP), total_income)),
                   Mul(Mul(n_employed, n_unemployed), Abs(Sub(y_emp, y_unemp))))
           ELSE Eq(gini, Zero)
        /\ InScenario =>
            /\ Eq(Mul(gini, Mul(Num(58000000), Num(1000000))),
                  Mul(Num(1900000), Num(1000000)))
            /\ Le(Dec(327585, 7), gini) /\ Lt(gini, Dec(327595, 7))

\* C3 witness: the reference scenario has been computed, with a gini that is
\* not zero.
C3_Witness == InScenario /\ Lt(Zero, gini) /\ Lt(Zero, total_income)

\* C4: after each pass, total_income = n_employed * (wage + bdp_amount) +
\* n_unemployed * bdp_amount and nominal_consumption * POP = total_income *
\* 0.82; in the reference scenario these are 580 000 000 and 4756.
C4_IncomeAndConsumption ==
    Bound =>
        /\ Eq(total_income,
              Add(Mul(n_employed, Add(wage, bdp_amount)),
                  Mul(n_unemployed, bdp_amount)))
        /\ Eq(Mul(nominal_consumption, Num(POP)), Mul(total_income, Dec(82, 2)))
        /\ results[idx].nominal_consumption = nominal_consumption
        /\ InScenario =>
            /\ Eq(total_income, Num(580000000))
            /\ Eq(nominal_consumption, Num(4756))

\* C4 witness: the reference scenario has been computed and its record is
\* in the results.
C4_Witness ==
    /\ InScenario
    /\ Eq(n_employed, Num(95000)) /\ Eq(n_unemployed, Num(5000))
    /\ Eq(results[idx].nominal_consumption, Num(4756))

\* C5: after each pass, n_employed is an integer, the product
\* (1 - unemp_rate) * POP with its fraction dropped (never rounded to the
\* nearest integer), which for a product >= 0 is its floor; and n_employed +
\* n_unemployed = POP.  A product of 94999.9 gives 94999.
C5_Product == Mul(Sub(One, unemp_rate), Num(POP))

C5_Truncation ==
    Bound =>
        /\ n_employed.d = <<1>>
        /\ n_employed.s \in {0, C5_Product.s}
        /\ Le(Abs(n_employed), Abs(C5_Product))
        /\ Lt(Abs(C5_Product), Add(Abs(n_employed), One))
        /\ Le(Zero, C5_Product) =>
              Le(n_employed, C5_Product) /\ Lt(C5_Product, Add(n_employed, One))
        /\ Eq(Add(n_employed, n_unemployed), Num(POP))
        /\ Eq(C5_Product, Dec(949999, 1)) => Eq(n_employed, Num(94999))

\* C5 witness: a row whose product is 94999.9 has been processed: 94999
\* employed, 5001 unemployed.
C5_Witness ==
    /\ Bound
    /\ Eq(C5_Product, Dec(949999, 1))
    /\ Eq(n_employed, Num(94999)) /\ Eq(n_unemployed, Num(5001))

\* C6: after each pass over a row with Unemployment = 0, n_unemployed = 0
\* and gini = 0 (in the locals and in the record), whatever the wage and
\* the transfer.
C6_NoUnemployment ==
    (Bound /\ Eq(unemp_rate, Zero)) =>
        /\ Eq(n_unemployed, Zero)
        /\ Eq(gini, Zero)
        /\ Eq(results[idx].gini, Zero)

\* C6 witness: a row with no unemployment, a wage of 4000 (so the two
\* incomes differ) and a positive total income has been processed.
C6_Witness ==
    /\ Bound /\ Eq(unemp_rate, Zero)
    /\ Eq(wage, Num(4000)) /\ ~Eq(y_emp, y_unemp)
    /\ Lt(Zero, total_income)

\* C7: after each pass over a row with Unemployment = 1, n_employed = 0 and
\* gini = 0, whatever the wage and the transfer, a transfer of 0 (total
\* income 0) included.
C7_AllUnemployed ==
    (Bound /\ Eq(unemp_rate, One)) =>
        /\ Eq(n_employed, Zero)
        /\ Eq(gini, Zero)
        /\ Eq(results[idx].gini, Zero)

\* C7 witness: a row with everybody unemployed and a wage that is not 0 has
\* been processed under a transfer of 0: total income is 0.
C7_Witness ==
    /\ Bound /\ Eq(unemp_rate, One)
    /\ Eq(bdp_amount, Zero) /\ ~Eq(wage, Zero)
    /\ Eq(total_income, Zero)

\* C8: after each pass over a row with MarketWage = 0, y_emp = y_unemp and
\* gini = 0, whatever the unemployment rate and the transfer.
C8_WageParity ==
    (Bound /\ Eq(wage, Zero)) =>
        /\ Eq(y_emp, y_unemp)
        /\ Eq(gini, Zero)
        /\ Eq(results[idx].gini, Zero)

\* C8 witness: a row with wage 0 and both classes populated has been
\* processed under a transfer of 2000 (total income > 0).
C8_Witness ==
    /\ Bound /\ Eq(wage, Zero)
    /\ Lt(Zero, n_employed) /\ Lt(Zero, n_unemployed)
    /\ Eq(bdp_amount, Num(2000)) /\ Lt(Zero, total_income)

C10_OneRecordPerRowInOrder ==
    /\ pc # "raised" =>
        /\ Len(results) = idx
        /\ idx <= Len(df.rows)
        /\ \A i \in 1..idx : results[i] = Welfare(df.rows[i], bdp_amount)
    /\ pc = "done" =>
        /\ Len(ret.rows) = Len(df.rows)
        /\ \A i \in 1..Len(df.rows) :
              ret.rows[i] = Welfare(df.rows[i], bdp_amount)

\* C10 witness: a frame of two different rows has been returned as two
\* different records.
C10_Witness ==
    /\ pc = "done" /\ Len(df.rows) = 2
    /\ df.rows[1] # df.rows[2]
    /\ Len(ret.rows) = 2 /\ ret.rows[1] # ret.rows[2]

\* C10 witness for the empty input: nothing in, nothing out.
C10_WitnessEmpty == pc = "done" /\ df.rows = << >> /\ ret.rows = << >>

\* C11: a row with PriceLevel <= 0 is rejected with an error: once such a
\* row has been handed out the call has raised, and results holds no record
\* for it (so no record with an infinite, NaN or negatively deflated real
\* consumption is returned).
C11_InvalidPriceRaises ==
    \A i \in 1..idx :
        ("PriceLevel" \in df.columns /\ Le(df.rows[i]["PriceLevel"], Zero)) =>
            pc = "raised" /\ Len(results) < i

\* C12: for a frame whose rows lack one of Unemployment, MarketWage,
\* PriceLevel, the call raises at the first row it is handed and stops
\* there: results stays empty, nothing is returned, no further row is
\* taken.
C12_MissingColumn == df.rows # << >> /\ ~(Columns \subseteq df.columns)

C12_MissingColumnFailsFast ==
    C12_MissingColumn =>
        /\ pc \in {"loop", "raised"}
        /\ results = << >>
        /\ ret = DataFrame(<< >>)
        /\ pc = "loop" => idx = 0
        /\ pc = "raised" => idx = 1 /\ ~ENABLED Next

\* C12 witness: a frame of two rows without the MarketWage column has
\* raised at its first row.
C12_Witness ==
    /\ C12_MissingColumn /\ "MarketWage" \notin df.columns
    /\ Len(df.rows) = 2
    /\ pc = "raised" /\ idx = 1 /\ unemp_rate # Unbound /\ wage = Unbound

\* C13: among the calls made one after another, whenever two calls with the
\* same transfer hold the same row (at any positions, with any other rows
\* before or after it, in any order), the records computed for it are
\* identical; the same for the records of the call in progress.
C13_RecordDependsOnOwnRow ==
    /\ \A k1, k2 \in 1..Len(history) :
         \A i \in 1..Len(history[k1].ret.rows), j \in 1..Len(history[k2].ret.rows) :
            (/\ history[k1].bdp_amount = history[k2].bdp_amount
             /\ history[k1].df.rows[i] = history[k2].df.rows[j])
            => history[k1].ret.rows[i] = history[k2].ret.rows[j]
    /\ \A k \in 1..Len(history) :
         \A i \in 1..Len(history[k].ret.rows), j \in 1..Len(results) :
            (/\ history[k].bdp_amount = bdp_amount
             /\ history[k].df.rows[i] = df.rows[j])
            => history[k].ret.rows[i] = results[j]

\* C13 witness: two calls with the same transfer were given the same two
\* different rows in opposite orders, and returned the same two different
\* records in opposite orders.
C13_Witness ==
    /\ Len(history) = 2
    /\ history[1].bdp_amount = history[2].bdp_amount
    /\ history[1].df.rows = <<CallRowA, CallRowB>>
    /\ history[2].df.rows = <<CallRowB, CallRowA>>
    /\ history[1].ret.rows[1] = history[2].ret.rows[2]
    /\ history[1].ret.rows[2] = history[2].ret.rows[1]
    /\ history[1].ret.rows[1] # history[1].ret.rows[2]

\* C14: no step of any sequence of calls changes POP or MPC, the frame the
\* call in progress was given, or what earlier calls were given and
\* returned; a call that begins starts from an empty results list, and what
\* is recorded for the call that ended is its frame and its return value.
C14_NoSideEffects ==
    [][ /\ POP' = POP /\ MPC' = MPC
        /\ Len(history') >= Len(history)
        /\ \A k \in 1..Len(history) : history'[k] = history[k]
        /\ Len(history') = Len(history) => df' = df /\ bdp_amount' = bdp_amount
        /\ Len(history') > Len(history) =>
              /\ history'[Len(history')].df = df
              /\ history'[Len(history')].ret = ret
              /\ results' = << >>
      ]_vars

\* C14 witness: a third call has returned rows while the frames and the
\* non-empty tables of the first two calls are still held.
C14_Witness ==
    /\ Len(history) = 2 /\ pc = "done"
    /\ history[1].ret.rows # << >> /\ history[2].ret.rows # << >>
    /\ ret.rows # << >>

\* C15: after each pass gini is a finite number (no division by zero was
\* evaluated); whenever POP * total_income = 0, or y_emp = y_unemp, or
\* total_income < 0, gini is the 0.0 of the else branch; and a gini that is
\* not that 0.0 was divided by a POP * total_income that is not 0.
C15_NoZeroDenominator ==
    Bound =>
        LET den == Mul(Num(POP), total_income) IN
        /\ gini.k = "fin"
        /\ (Eq(den, Zero) \/ Eq(y_emp, y_unemp) \/ Lt(total_income, Zero))
              => gini = Zero
        /\ gini # Zero => Lt(Zero, den)

\* C15 witness: a pass with a total income below 0 and two different class
\* incomes took the else branch.
C15_Witness ==
    /\ Bound /\ Lt(total_income, Zero) /\ ~Eq(y_emp, y_unemp)
    /\ gini = Zero

\* C15 witness for a denominator of 0: total income 0, different class
\* incomes, else branch.
C15_WitnessZero ==
    /\ Bound /\ Eq(Mul(Num(POP), total_income), Zero) /\ ~Eq(y_emp, y_unemp)
    /\ gini = Zero

\* C17: for every processed row with 0 < Unemployment < 1, both head counts
\* positive and MarketWage > 0, and every pair of transfers
\* 0 <= bdp_amount < b2, the gini under b2 is strictly smaller than the
\* gini under bdp_amount.
C17_Domain(row) ==
    /\ Lt(Zero, row["Unemployment"]) /\ Lt(row["Unemployment"], One)
    /\ Lt(Zero, NEmployed(row["Unemployment"]))
    /\ Lt(Zero, NUnemployed(NEmployed(row["Unemployment"])))
    /\ Lt(Zero, row["MarketWage"])

SweepStart == 0
SweepStop  == 5001
SweepStep  == 250

bdp_levels ==
    [n \in 1..((SweepStop - SweepStart + SweepStep - 1) \div SweepStep) |->
        SweepStart + SweepStep * (n - 1)]

MaxSeeds == 1

\* no file sweep_<bdp>_terminal.csv
Missing == [exists |-> FALSE, rows |-> << >>]

\* a file sweep_<bdp>_terminal.csv with these rows
File(rows) == [exists |-> TRUE, rows |-> rows]

\* rows of the sweep files
SweepRowA == [TotalAdoption |-> Dec(25, 2), Inflation |-> Dec(5, 1),
              Unemployment |-> Dec(125, 3), ExRate |-> Dec(45, 1)]
SweepRowB == [TotalAdoption |-> Dec(75, 2), Inflation |-> Num(0),
              Unemployment |-> Dec(5, 1), ExRate |-> Num(4)]

SweepContents == SeqsUpTo({SweepRowA, SweepRowB}, MaxSeeds)

\* the sets of levels whose file may be absent: none, the first, the last,
\* two neighbours, three apart, all
SweepGaps ==
    { {}, {0}, {5000}, {250, 500}, {0, 2500, 5000},
      {bdp_levels[n] : n \in DOMAIN bdp_levels} }

\* the directories the loader is run on: the files of the levels at odd
\* and at even positions hold a and b, those of gap are absent
SweepDirs ==
    { [l \in {bdp_levels[n] : n \in DOMAIN bdp_levels} |->
          IF l \in gap THEN Missing
          ELSE IF (l \div SweepStep) % 2 = 0 THEN File(a) ELSE File(b)] :
        gap \in SweepGaps, a \in SweepContents, b \in SweepContents }

\* lines 31-37: the dict appended for one row of the file of level bdp
SweepEntry(bdp, row) ==
    [BDP |-> bdp,
     Adoption |-> Mul(row["TotalAdoption"], Num(100)),
     Inflation |-> Mul(row["Inflation"], Num(100)),
     Unemployment |-> Mul(row["Unemployment"], Num(100)),
     ExRate |-> row["ExRate"]]

InitSweep ==
    /\ WelfareOff /\ GmmOff
    /\ sweep_files \in SweepDirs
    /\ sweep_pc = "loop"
    /\ sweep_i = 0
    /\ sweep_results = << >>
    /\ sweep_out = << >>
    /\ sweep_data = << >>

SweepMissing_Abort ==
    /\ sweep_pc = "loop"
    /\ sweep_i < Len(bdp_levels)
    /\ sweep_files[bdp_levels[sweep_i + 1]] = Missing
    /\ sweep_pc' = "raised"
    /\ sweep_i' = sweep_i + 1
    /\ UNCHANGED <<sweep_files, sweep_results, sweep_out, sweep_data,
                   welfarevars, gmmvars>>

\* lines 24-28: the file of the next level does not exist: say so, go on
SweepMissing ==
    /\ sweep_pc = "loop"
    /\ sweep_i < Len(bdp_levels)
    /\ sweep_files[bdp_levels[sweep_i + 1]] = Missing
    /\ sweep_out' = Append(sweep_out,
                           [msg |-> "MISSING", bdp |-> bdp_levels[sweep_i + 1]])
    /\ sweep_i' = sweep_i + 1
    /\ UNCHANGED <<sweep_files, sweep_pc, sweep_results, sweep_data,
                   welfarevars, gmmvars>>

\* lines 24-39: the file of the next level exists: one entry per row, in
\* row order, then the line with the number of seeds
SweepLoad ==
    /\ sweep_pc = "loop"
    /\ sweep_i < Len(bdp_levels)
    /\ sweep_files[bdp_levels[sweep_i + 1]] # Missing
    /\ LET bdp  == bdp_levels[sweep_i + 1]
           rows == sweep_files[bdp].rows
       IN  /\ sweep_results' =
                sweep_results \o [j \in 1..Len(rows) |-> SweepEntry(bdp, rows[j])]
           /\ sweep_out' = Append(sweep_out,
                                  [msg |-> "BDP", bdp |-> bdp, seeds |-> Len(rows)])
    /\ sweep_i' = sweep_i + 1
    /\ UNCHANGED <<sweep_files, sweep_pc, sweep_data, welfarevars, gmmvars>>

\* lines 41-42: past the loop
SweepFinish ==
    /\ sweep_pc = "loop"
    /\ sweep_i = Len(bdp_levels)
    /\ sweep_data' = sweep_results
    /\ sweep_out' = Append(sweep_out,
                           [msg |-> "Total datapoints", n |-> Len(sweep_results)])
    /\ sweep_pc' = "done"
    /\ UNCHANGED <<sweep_files, sweep_i, sweep_results, welfarevars, gmmvars>>

NextSweep == SweepMissing \/ SweepLoad \/ SweepFinish

SpecSweep == InitSweep /\ [][NextSweep]_vars

\* the entries collected for level l, in the order collected
C16_EntriesOf(l) ==
    LET OfLevel(e) == e.BDP = l IN SelectSeq(sweep_results, OfLevel)

\* C16: the loader takes the 21 levels 0, 250, ..., 5000 in ascending
\* order, printing one line per level taken; a level without a file gets a
\* MISSING line and nothing else, and the loop goes on to the end; for every
\* level taken, the entries collected under it are one per row of its file,
\* in row order, with the row's values (rates as percentages), none if the
\* file is absent; nothing is collected under a level not yet taken, and
\* entries stay in level order.
C16_SweepLoader ==
    /\ Len(bdp_levels) = 21
    /\ sweep_pc \in {"loop", "done"}
    /\ sweep_pc = "done" => sweep_i = 21 /\ sweep_data = sweep_results
    /\ \A n \in 1..sweep_i :
          LET l == 250 * (n - 1) IN
          /\ sweep_out[n].bdp = l
          /\ sweep_out[n].msg = (IF sweep_files[l] = Missing THEN "MISSING" ELSE "BDP")
          /\ IF sweep_files[l] = Missing
             THEN C16_EntriesOf(l) = << >>
             ELSE /\ Len(C16_EntriesOf(l)) = Len(sweep_files[l].rows)
                  /\ sweep_out[n].seeds = Len(sweep_files[l].rows)
                  /\ \A j \in 1..Len(sweep_files[l].rows) :
                        LET e == C16_EntriesOf(l)[j]
                            r == sweep_files[l].rows[j]
                        IN  /\ Eq(e.Adoption, Mul(Num(100), r["TotalAdoption"]))
                            /\ Eq(e.Inflation, Mul(Num(100), r["Inflation"]))
                            /\ Eq(e.Unemployment, Mul(Num(100), r["Unemployment"]))
                            /\ Eq(e.ExRate, r["ExRate"])
    /\ \A j \in 1..Len(sweep_results) :
          /\ sweep_results[j].BDP \in {250 * (n - 1) : n \in 1..sweep_i}
          /\ j > 1 => sweep_results[j - 1].BDP <= sweep_results[j].BDP

\* C16 witness: the loader has finished on a directory where the files of
\* 250 and 500 are absent and the others hold a row: two MISSING lines, and
\* entries for 0 and 750 next to each other.
C16_Witness ==
    /\ sweep_pc = "done"
    /\ sweep_files[250] = Missing /\ sweep_files[500] = Missing
    /\ sweep_out[2].msg = "MISSING" /\ sweep_out[3].msg = "MISSING"
    /\ Len(sweep_data) = 19
    /\ sweep_data[1].BDP = 0 /\ sweep_data[2].BDP = 750
    /\ sweep_data[19].BDP = 5000

(* -------- analysis/diptest_analysis.py: the GMM selection loop --------- *)

\* line 40: for k in range(1, 6)
GmmFirstK == 1
GmmStopK  == 6

MaxBic == 3

\* the BIC values a fit may report (only their order matters to the loop)
BicValues == 1..MaxBic

\* np.argmin: the 0-based position of the first occurrence of the minimum
ArgMin(bs) ==
    (CHOOSE n \in 1..Len(bs) :
        /\ \A m \in 1..Len(bs) : bs[n] <= bs[m]
        /\ \A m \in 1..(n - 1) : bs[m] > bs[n]) - 1

InitGmm ==
    /\ WelfareOff /\ SweepOff
    /\ gmm_fits \in [GmmFirstK..(GmmStopK - 1) -> BicValues]
    /\ gmm_pc = "loop"
    /\ gmm_k = 0
    /\ bics = << >>
    /\ gmm_out = << >>
    /\ best_k = 0

\* lines 40-45: fit K = k, append its BIC, print its line, tagged when k is
\* the position of the minimum of the BICs appended so far and k > 1
GmmFit ==
    /\ gmm_pc = "loop"
    /\ GmmFirstK + gmm_k < GmmStopK
    /\ LET k == GmmFirstK + gmm_k IN
        /\ bics' = Append(bics, gmm_fits[k])
        /\ gmm_out' = Append(gmm_out,
                             [K |-> k, BIC |-> bics'[Len(bics')],
                              tag |-> (k = ArgMin(bics') + 1 /\ k > 1)])
    /\ gmm_k' = gmm_k + 1
    /\ UNCHANGED <<gmm_fits, gmm_pc, best_k, welfarevars, sweepvars>>

\* lines 47-48: best_k = np.argmin(bics) + 1
GmmSelect ==
    /\ gmm_pc = "loop"
    /\ GmmFirstK + gmm_k = GmmStopK
    /\ best_k' = ArgMin(bics) + 1
    /\ gmm_pc' = "done"
    /\ UNCHANGED <<gmm_fits, gmm_k, bics, gmm_out, welfarevars, sweepvars>>

NextGmm == GmmFit \/ GmmSelect

SpecGmm == InitGmm /\ [][NextGmm]_vars

\* C18: once best_k is selected, it is the smallest K in 1..5 whose BIC is
\* the minimum of the five; a printed line carries the BEST tag only if its
\* K is best_k, and at most one line carries it.
C18_TagOnlyOnBest ==
    gmm_pc = "done" =>
        /\ best_k \in 1..5
        /\ \A K \in 1..5 : gmm_fits[best_k] <= gmm_fits[K]
        /\ \A K \in 1..(best_k - 1) : gmm_fits[K] > gmm_fits[best_k]
        /\ \A n \in 1..Len(gmm_out) : gmm_out[n].tag => gmm_out[n].K = best_k
        /\ Cardinality({n \in 1..Len(gmm_out) : gmm_out[n].tag}) <= 1

====
